---- MODULE Spec2Model ----
(***************************************************************************)
(* LlamaPusher (src/main.go): collect the staged diff, build a prompt,     *)
(* pass the cost/size filter, ask the local inference endpoint for a       *)
(* commit message, post-process it, and commit it (single mode) or let the *)
(* user pick one of several candidates or regenerate them (list mode).     *)
(*                                                                         *)
(* Strings are TLC strings; a character is a string of length one.  The    *)
(* emoji glyphs of the source are not ASCII and are written here as ASCII  *)
(* stand-ins made of non-word characters, so that the word pattern of      *)
(* addGitmojiToCommitMessage sees them as it sees the glyphs: not letters. *)
(***************************************************************************)
EXTENDS Integers, Sequences, FiniteSets, TLC

(***************************************************************************)
(* Go's strings package, as far as main.go uses it.                        *)
(***************************************************************************)
Char(s, i) == SubSeq(s, i, i)

Min(S) == CHOOSE x \in S : \A y \in S : x <= y

\* unicode.IsSpace on the ASCII range
IsSpace(c) == c \in {" ", "\t", "\n", "\r", "\f"}

UpperLetters == "ABCDEFGHIJKLMNOPQRSTUVWXYZ"

LowerLetters == "abcdefghijklmnopqrstuvwxyz"

IsLetter(c) ==
    \E i \in 1..26 : Char(UpperLetters, i) = c \/ Char(LowerLetters, i) = c

IsWordChar(c) ==
    IsLetter(c) \/ c = "_" \/ \E i \in 1..10 : Char("0123456789", i) = c

HasPrefix(s, prefix) ==
    Len(s) >= Len(prefix) /\ SubSeq(s, 1, Len(prefix)) = prefix

\* strings.Index, 1-based; 0 when substr does not occur
Index(s, substr) ==
    LET at == { i \in 1..(Len(s) - Len(substr) + 1) :
                    SubSeq(s, i, i + Len(substr) - 1) = substr }
    IN  IF at = {} THEN 0 ELSE Min(at)

Contains(s, substr) == Index(s, substr) # 0

RECURSIVE SplitNonEmpty(_, _)
\* Split as it would be if empty pieces were dropped
SplitNonEmpty(s, sep) ==
    LET i == Index(s, sep)
        first == IF i = 0 THEN s ELSE SubSeq(s, 1, i - 1)
        rest == IF i = 0 THEN << >>
                ELSE SplitNonEmpty(SubSeq(s, i + Len(sep), Len(s)), sep)
    IN  IF first = "" THEN rest ELSE << first >> \o rest

RECURSIVE Split(_, _)
\* strings.Split for a non-empty separator: n separators give n+1 pieces
Split(s, sep) ==
    LET i == Index(s, sep)
    IN  IF i = 0
        THEN << s >>
        ELSE << SubSeq(s, 1, i - 1) >>
                 \o Split(SubSeq(s, i + Len(sep), Len(s)), sep)

RECURSIVE Join(_, _)
Join(elems, sep) ==
    IF Len(elems) = 0 THEN ""
    ELSE IF Len(elems) = 1 THEN elems[1]
    ELSE elems[1] \o sep \o Join(Tail(elems), sep)

RECURSIVE ReplaceAll(_, _, _)
\* strings.ReplaceAll for a non-empty old: non-overlapping, left to right,
\* the replacement text is not scanned again
ReplaceAll(s, old, new) ==
    LET i == Index(s, old)
    IN  IF i = 0
        THEN s
        ELSE SubSeq(s, 1, i - 1) \o new
                 \o ReplaceAll(SubSeq(s, i + Len(old), Len(s)), old, new)

TrimSpace(s) ==
    LET keep == { i \in 1..Len(s) : ~IsSpace(Char(s, i)) }
    IN  IF keep = {} THEN ""
        ELSE SubSeq(s, Min(keep), CHOOSE j \in keep : \A k \in keep : k <= j)

ToLowerChar(c) ==
    IF \E i \in 1..26 : Char(UpperLetters, i) = c
    THEN Char(LowerLetters, CHOOSE i \in 1..26 : Char(UpperLetters, i) = c)
    ELSE c

RECURSIVE ToLower(_)
ToLower(s) ==
    IF Len(s) = 0 THEN ""
    ELSE ToLowerChar(Char(s, 1)) \o ToLower(SubSeq(s, 2, Len(s)))

\* len(strings.Fields(s)): the number of maximal runs of non-space characters
NumFields(s) ==
    Cardinality({ i \in 1..Len(s) :
                    /\ ~IsSpace(Char(s, i))
                    /\ (i = 1 \/ IsSpace(Char(s, i - 1))) })

(***************************************************************************)
(* Constants of the source.                                                *)
(***************************************************************************)
Recycle == "<%>"

regenerateMsg == Recycle \o " Regenerate Commit Messages"

typeToGitmoji ==
    [ feat |-> "<*>", fix |-> "<+>", docs |-> "<#>", style |-> "<~>",
      refactor |-> Recycle, test |-> "<v>", chore |-> "<&>" ]

numOptions == 5

(***************************************************************************)
(* Pure functions of the source.                                           *)
(***************************************************************************)
getPromptForSingleCommit(diff, commitType, language) ==
    "From the following git diff create a short, useful git commit message in "
        \o language \o " language"
        \o (IF commitType # ""
            THEN " with commit type '" \o commitType \o "'. "
            ELSE ". ")
        \o "Do not preface the commit with anything, use the present tense, return the full sentence, "
        \o "and use the conventional commits specification (<type in lowercase>: <subject>): "
        \o "START OF GIT DIFF:\n"
        \o diff
        \o "\nEND OF GIT DIFF"

getPromptForListCommits(diff, commitType, language, n) ==
    "From the following git diff create a short, useful git commit message in "
        \o language \o " language"
        \o (IF commitType # ""
            THEN " with commit type '" \o commitType \o "', "
            ELSE ", ")
        \o "and make " \o ToString(n) \o " options that are separated by ';'. "
        \o "For each option, use the present tense, return the full sentence, "
        \o "and use the conventional commits specification (<type in lowercase>: <subject>): "
        \o "START OF GIT DIFF:\n"
        \o diff
        \o "\nEND OF GIT DIFF"

\* regexp `\b[a-zA-Z]+\b`, FindString: the first maximal run of word
\* characters that is made of letters only; "" when there is none
FirstWord(s) ==
    LET starts == { i \in 1..Len(s) :
                      /\ IsWordChar(Char(s, i))
                      /\ (i = 1 \/ ~IsWordChar(Char(s, i - 1))) }
        EndOf(i) == Min({ j \in i..Len(s) :
                            j = Len(s) \/ ~IsWordChar(Char(s, j + 1)) })
        good == { i \in starts :
                    \A k \in i..EndOf(i) : IsLetter(Char(s, k)) }
    IN  IF good = {} THEN ""
        ELSE SubSeq(s, Min(good), EndOf(Min(good)))

addGitmojiToCommitMessage(commitMessage) ==
    LET match == FirstWord(commitMessage)
    IN  IF match = "" THEN commitMessage
        ELSE IF match \in DOMAIN typeToGitmoji
        THEN typeToGitmoji[match] \o " " \o commitMessage
        ELSE commitMessage

\* default of the --language flag
language == "english"

DiffEqual == "Equal"

DiffDelete == "Delete"

DiffInsert == "Insert"

\* diffmatchpatch.DiffMain(text1, text2, true) as getGitDiff calls it, with
\* text2 = "": equal texts give one Equal region (none when both are empty),
\* an empty text2 gives the whole of text1 as one Delete region
DiffMain(text1, text2) ==
    IF text1 = text2
    THEN IF Len(text1) > 0
         THEN << [Type |-> DiffEqual, Text |-> text1] >>
         ELSE << >>
    ELSE IF Len(text1) = 0
    THEN << [Type |-> DiffInsert, Text |-> text2] >>
    ELSE << [Type |-> DiffDelete, Text |-> text1] >>

\* IsMarkerLine as it would be if only hunk headers were dropped
IsHunkLine(line) == HasPrefix(line, "@@")

IsMarkerLine(line) == HasPrefix(line, "@@") \/ HasPrefix(line, "diff --git")

RECURSIVE KeptLines(_)
\* the inner loop of getGitDiff over the lines of one region
KeptLines(lines) ==
    IF Len(lines) = 0 THEN << >>
    ELSE IF IsMarkerLine(Head(lines)) THEN KeptLines(Tail(lines))
    ELSE << Head(lines) >> \o KeptLines(Tail(lines))

RECURSIVE RegionLines(_)
\* the outer loop of getGitDiff over the regions
RegionLines(diffs) ==
    IF Len(diffs) = 0 THEN << >>
    ELSE IF Head(diffs).Type = DiffEqual THEN RegionLines(Tail(diffs))
    ELSE KeptLines(Split(Head(diffs).Text, "\n")) \o RegionLines(Tail(diffs))

\* getGitDiff applied to the captured output of the diff tool
getGitDiff(output) == Join(RegionLines(DiffMain(output, "")), "\n")

\* processTemplate looks the branch up when the template, after the message
\* has been substituted, contains the branch placeholder
LooksUpBranch(template, commitMessage) ==
    Contains(ReplaceAll(template, "{COMMIT_MESSAGE}", commitMessage),
             "{GIT_BRANCH}")

\* processTemplate, given the output of `git branch --show-current`
processTemplate(template, commitMessage, branchOutput) ==
    LET finalCommitMessage ==
            ReplaceAll(template, "{COMMIT_MESSAGE}", commitMessage)
    IN  IF Contains(finalCommitMessage, "{GIT_BRANCH}")
        THEN ReplaceAll(finalCommitMessage, "{GIT_BRANCH}",
                        TrimSpace(branchOutput))
        ELSE finalCommitMessage

\* AnswerIsYes as it would be if any answer starting with y were taken
AnswerStartsWithYes(answer) == HasPrefix(ToLower(TrimSpace(answer)), "y")

\* the user's answer to a y/n question, as both questions test it
AnswerIsYes(answer) == ToLower(TrimSpace(answer)) = "y"

\* TooLarge as it would be with >= for >
TooLargeOrEqual(numTokens, maxTokens) == numTokens >= maxTokens

TooLarge(numTokens, maxTokens) == numTokens > maxTokens

\* filterAPI as it would be if a declined fee did not return false
filterAPIFeeIgnored(prompt, numCompletion, maxTokens, filterFee, answer) ==
    IF TooLarge(NumFields(prompt), maxTokens)
    THEN [proceed |-> FALSE, asked |-> FALSE]
    ELSE [proceed |-> TRUE, asked |-> filterFee]

\* filterAPI: asked tells whether the fee question was put (and answer read)
filterAPI(prompt, numCompletion, maxTokens, filterFee, answer) ==
    LET numTokens == NumFields(prompt)
    IN  IF TooLarge(numTokens, maxTokens)
        THEN [proceed |-> FALSE, asked |-> FALSE]
        ELSE IF filterFee
        THEN [proceed |-> AnswerIsYes(answer), asked |-> TRUE]
        ELSE [proceed |-> TRUE, asked |-> FALSE]

RECURSIVE PostProcessFrom(_, _, _, _, _, _, _)
\* the loop of generateListCommits over the pieces of the response; okLeft is
\* the number of branch lookups that succeed before one fails
PostProcessFrom(pieces, i, template, doAddEmoji, branchOutput, okLeft, acc) ==
    IF i > Len(pieces)
    THEN [msgs |-> acc.msgs, lookups |-> acc.lookups, fatal |-> FALSE]
    ELSE LET trimmed == TrimSpace(pieces[i])
             withEmoji == IF doAddEmoji
                          THEN addGitmojiToCommitMessage(trimmed)
                          ELSE trimmed
         IN  IF template = ""
             THEN PostProcessFrom(pieces, i + 1, template, doAddEmoji,
                      branchOutput, okLeft,
                      [msgs |-> Append(acc.msgs, withEmoji),
                       lookups |-> acc.lookups])
             ELSE IF LooksUpBranch(template, withEmoji) /\ okLeft = 0
             THEN [msgs |-> acc.msgs, lookups |-> acc.lookups + 1,
                   fatal |-> TRUE]
             ELSE PostProcessFrom(pieces, i + 1, template, doAddEmoji,
                      branchOutput,
                      IF LooksUpBranch(template, withEmoji)
                      THEN okLeft - 1 ELSE okLeft,
                      [msgs |-> Append(acc.msgs,
                           processTemplate(template, withEmoji, branchOutput)),
                       lookups |-> acc.lookups
                           + (IF LooksUpBranch(template, withEmoji)
                              THEN 1 ELSE 0)])

PostProcessList(text, template, doAddEmoji, branchOutput, okLeft) ==
    PostProcessFrom(Split(text, ";"), 1, template, doAddEmoji, branchOutput,
                    okLeft, [msgs |-> << >>, lookups |-> 0])

InvalidChoice(choice, n) == choice < 1 \/ choice > n

\* IsRegenerate as it would be if it compared with the text without its glyph
IsRegenerateNoGlyph(selectedMsg) == selectedMsg = "Regenerate Commit Messages"

IsRegenerate(selectedMsg) == selectedMsg = regenerateMsg

(***************************************************************************)
(* Bounds and input sets.                                                  *)
(***************************************************************************)
\* what `git diff --staged --no-color --no-prefix` may print: nothing, marker
\* lines only, a usual one-file diff, and diffs of one and of seven words
RawOutputs ==
    { "", "@@ -1 +1 @@\n",
      "diff --git a.go a.go\n@@ -1 +1 @@\n-old\n+new\n",
      "+a\n", "+a b c d e f g\n" }

\* lines the diff tool may print, for the outputs built line by line
DiffLineSet == { "diff --git a.go a.go", "@@ -1 +1 @@", "+new x @@", "" }

MaxDiffLines == 3

RECURSIVE OutputsOf(_)
\* the outputs of up to n lines, each line ended by a newline or the last not
OutputsOf(n) ==
    IF n = 0 THEN { "" }
    ELSE LET shorter == OutputsOf(n - 1)
         IN  shorter
             \cup { o \o l \o "\n" : o \in shorter, l \in DiffLineSet }
             \cup { o \o l : o \in { x \in shorter : x = "" \/ Char(x, Len(x)) = "\n" },
                             l \in DiffLineSet }

\* default of the --max-tokens flag
DefaultMaxTokens == 2048

\* a ceiling among the word counts of the prompts of both modes
Ceiling == 54

MaxTokensSet == { DefaultMaxTokens, Ceiling }

Templates == { "", "[{GIT_BRANCH}] {COMMIT_MESSAGE}", "{COMMIT_MESSAGE}" }

\* what the user may type at a y/n question ("" is end of input)
Answers == { "y\n", " Y \n", "n\n", "yes\n", "" }

\* texts the inference endpoint may answer with
Responses ==
    { "feat: a ; fix: b ;chore: c", "fix: bug", "", "unknown: x;",
      regenerateMsg \o ";docs: d", "fix {GIT_BRANCH}" }

\* pieces of a response, for the responses built piece by piece
PieceSet == { "", " fix: b\n", "x y" }

MaxPieces == 3

RECURSIVE ResponsesOf(_)
\* the responses of up to n pieces, joined by ';'
ResponsesOf(n) ==
    IF n = 1 THEN PieceSet
    ELSE ResponsesOf(n - 1)
         \cup { r \o ";" \o q : r \in ResponsesOf(n - 1), q \in PieceSet }

\* what `git branch --show-current` prints
BranchOutput == "main\n"

\* regenerations per run
MaxRounds == 2

\* changes of the staged files by others while the program runs
MaxExternalChanges == 1

(***************************************************************************)
(* State.                                                                  *)
(***************************************************************************)
VARIABLES
    list, force, filterFee, template, emoji, maxTokens,  \* the flags
    staged,        \* what the diff tool would print now
    replies,       \* the texts the inference endpoint may answer with
    changes,       \* external changes of the staged files so far
    pc,            \* where the program is
    output,        \* getGitDiff: the output captured last
    feeAnswer,     \* filterAPI: the answer read last
    diff, prompt, text, finalCommitMessage, msgs, answer, choice, \* locals
    round,         \* list mode: regenerations so far
    calls,         \* how often each tool was invoked and the filter passed
    mainDiff,      \* the diff text main collected
    passed,        \* the prompt the filter let through last
    sent,          \* the prompt posted last
    committed,     \* the commit invocations: message and success
    picked,        \* the kind of menu entry chosen last
    exitCode,      \* -1 while running
    cause          \* why the run ended

flags == << list, force, filterFee, template, emoji, maxTokens >>

locals ==
    << output, feeAnswer, diff, prompt, text, finalCommitMessage, msgs,
       answer, choice >>

history == << calls, mainDiff, passed, sent, committed, picked >>

vars ==
    << flags, staged, replies, changes, pc, locals, round, history, exitCode,
       cause >>

\* default of the --commit-type flag
commitType == ""

\* the program before main's first statement
Start ==
    /\ changes = 0
    /\ output = ""
    /\ feeAnswer = ""
    /\ pc = "start"
    /\ diff = ""
    /\ prompt = ""
    /\ text = ""
    /\ finalCommitMessage = ""
    /\ msgs = << >>
    /\ answer = ""
    /\ choice = 0
    /\ round = 0
    /\ calls = [revparse |-> 0, diff |-> 0, filterPass |-> 0, post |-> 0,
                branch |-> 0, commit |-> 0]
    /\ mainDiff = ""
    /\ passed = ""
    /\ sent = ""
    /\ committed = << >>
    /\ picked = "none"
    /\ exitCode = -1
    /\ cause = ""

\* the flags vary; --force is not read in list mode and is left off there
Init ==
    /\ list \in BOOLEAN
    /\ force \in (IF list THEN { FALSE } ELSE BOOLEAN)
    /\ filterFee \in BOOLEAN
    /\ template \in Templates
    /\ emoji \in BOOLEAN
    /\ maxTokens \in MaxTokensSet
    /\ staged \in RawOutputs
    /\ replies = Responses
    /\ Start

\* the diff tool's output varies line by line, the flags are the defaults
\* but for the mode and --force
InitDiff ==
    /\ list \in BOOLEAN
    /\ force = ~list
    /\ filterFee = FALSE
    /\ template = ""
    /\ emoji = TRUE
    /\ maxTokens = DefaultMaxTokens
    /\ staged \in OutputsOf(MaxDiffLines)
    /\ replies = { "fix: bug" }
    /\ Start

\* the endpoint's answer varies piece by piece
InitSplit ==
    /\ list \in BOOLEAN
    /\ force = ~list
    /\ filterFee = FALSE
    /\ template \in { "", "<{COMMIT_MESSAGE}>" }
    /\ emoji \in BOOLEAN
    /\ maxTokens = DefaultMaxTokens
    /\ staged = "+a\n"
    /\ replies = ResponsesOf(MaxPieces) \cup { "feat: a ; fix: b ;chore: c" }
    /\ Start

Count(tool, n) == calls' = [calls EXCEPT ![tool] = @ + n]

\* os.Exit(code), log.Fatal (code 1), or main returning (code 0)
Exit(code, why) ==
    /\ pc' = "exit"
    /\ exitCode' = code
    /\ cause' = why

Goto(next) ==
    /\ pc' = next
    /\ UNCHANGED << exitCode, cause >>

\* main, line 65: flag.Parse on the default flag set (flag.ExitOnError) ends
\* the run with status 0 after printing the usage when -h or -help is given,
\* and with status 2 on a command line it cannot parse; otherwise the flags
\* hold the values the run started with
ParseFlags ==
    /\ pc = "start"
    /\ \E parsed \in { "ok", "help", "error" } :
        IF parsed = "ok" THEN Goto("main")
        ELSE IF parsed = "help" THEN Exit(0, "help")
        ELSE Exit(2, "badFlag")
    /\ UNCHANGED << flags, staged, replies, changes, locals, round, history >>

\* main, lines 69-71
CheckGitRepository ==
    /\ pc = "main"
    /\ Count("revparse", 1)
    /\ \E isRepo \in BOOLEAN :
        IF isRepo THEN Goto("collect") ELSE Exit(1, "notRepo")
    /\ UNCHANGED << flags, staged, replies, changes, locals, round,
                    mainDiff, passed, sent, committed, picked >>

\* main, lines 73-90: collect the diff, check it, enter the mode's function
MainGetGitDiff ==
    /\ pc = "collect"
    /\ Count("diff", 1)
    /\ \E ran \in BOOLEAN :
        IF ran
        THEN /\ output' = staged
             /\ diff' = getGitDiff(output')
             /\ mainDiff' = diff'
             /\ IF diff' = ""
                THEN Exit(1, "emptyDiff")
                ELSE Goto(IF list THEN "list" ELSE "single")
        ELSE /\ Exit(1, "diffFailed")
             /\ UNCHANGED << output, diff, mainDiff >>
    /\ UNCHANGED << flags, staged, replies, changes, feeAnswer, prompt, text,
                    finalCommitMessage, msgs, answer, choice, round, passed,
                    sent, committed, picked >>

\* the staged files change while the program is between main's check and
\* the mode's function: one more line is staged
ExternalChange ==
    /\ pc \in { "single", "list" }
    /\ changes < MaxExternalChanges
    /\ staged' = staged \o "+late\n"
    /\ changes' = changes + 1
    /\ UNCHANGED << flags, replies, pc, locals, round, history, exitCode,
                    cause >>

\* a call of filterAPI on the new prompt and the caller's check of its result
Filter(p, numCompletion, next) ==
    /\ prompt' = p
    /\ \E typed \in Answers :
        LET r == filterAPI(p, numCompletion, maxTokens, filterFee, typed)
        IN  /\ r.asked \/ typed = ""
            /\ feeAnswer' = IF r.asked THEN typed ELSE feeAnswer
            /\ IF r.proceed
               THEN /\ Goto(next)
                    /\ Count("filterPass", 1)
                    /\ passed' = p
               ELSE /\ Exit(1, IF r.asked THEN "declinedFee" ELSE "tooLarge")
                    /\ UNCHANGED << calls, passed >>
    /\ UNCHANGED << flags, staged, replies, changes, output, diff, text,
                    finalCommitMessage, msgs, answer, choice, round, mainDiff,
                    sent, committed, picked >>

\* a call of sendMessageOllama and the caller's check of its error
Send(next) ==
    /\ Count("post", 1)
    /\ sent' = prompt
    /\ \/ \E response \in replies :
            /\ text' = response
            /\ Goto(next)
       \/ /\ Exit(1, "network")
          /\ UNCHANGED text
    /\ UNCHANGED << flags, staged, replies, changes, output, feeAnswer, diff,
                    prompt, finalCommitMessage, msgs, answer, choice, round,
                    mainDiff, passed, committed, picked >>

\* makeCommit as it would be if the error of cmd.Run were not checked
MakeCommitUnchecked(message) ==
    /\ Count("commit", 1)
    /\ \E done \in BOOLEAN :
        /\ committed' = Append(committed, [message |-> message, ok |-> done])
        /\ Exit(0, "committed")

\* makeCommit and the return to main
MakeCommit(message) ==
    /\ Count("commit", 1)
    /\ \E done \in BOOLEAN :
        /\ committed' = Append(committed, [message |-> message, ok |-> done])
        /\ IF done THEN Exit(0, "committed") ELSE Exit(1, "commitFailed")

\* generateSingleCommit, lines 135-141
SingleGetGitDiff ==
    /\ pc = "single"
    /\ Count("diff", 1)
    /\ \E ran \in BOOLEAN :
        IF ran
        THEN /\ output' = staged
             /\ diff' = getGitDiff(output')
             /\ IF diff' = ""
                THEN Exit(1, "emptyDiff")
                ELSE Goto("singleFilter")
        ELSE /\ Exit(1, "diffFailed")
             /\ UNCHANGED << output, diff >>
    /\ UNCHANGED << flags, staged, replies, changes, feeAnswer, prompt, text,
                    finalCommitMessage, msgs, answer, choice, round, mainDiff,
                    passed, sent, committed, picked >>

\* generateSingleCommit, lines 143-151
SingleFilter ==
    /\ pc = "singleFilter"
    /\ Filter(getPromptForSingleCommit(diff, commitType, language), 1,
              "singleSend")

\* generateSingleCommit, lines 153-156
SingleSend ==
    /\ pc = "singleSend"
    /\ Send("singleShow")

\* generateSingleCommit, lines 158-168
SingleShow ==
    /\ pc = "singleShow"
    /\ LET withEmoji == IF emoji THEN addGitmojiToCommitMessage(text)
                        ELSE text
       IN  IF template # "" /\ LooksUpBranch(template, withEmoji)
           THEN /\ Count("branch", 1)
                /\ \E found \in BOOLEAN :
                     IF found
                     THEN /\ finalCommitMessage' =
                               processTemplate(template, withEmoji, BranchOutput)
                          /\ Goto("singleConfirm")
                     ELSE /\ Exit(1, "branchFailed")
                          /\ UNCHANGED finalCommitMessage
           ELSE /\ finalCommitMessage' =
                     IF template # ""
                     THEN processTemplate(template, withEmoji, BranchOutput)
                     ELSE withEmoji
                /\ Goto("singleConfirm")
                /\ UNCHANGED calls
    /\ UNCHANGED << flags, staged, replies, changes, output, feeAnswer, diff,
                    prompt, text, msgs, answer, choice, round, mainDiff,
                    passed, sent, committed, picked >>

\* generateSingleCommit, lines 170-185
SingleConfirm ==
    /\ pc = "singleConfirm"
    /\ IF force
       THEN /\ MakeCommit(finalCommitMessage)
            /\ UNCHANGED answer
       ELSE \E typed \in Answers :
              /\ answer' = typed
              /\ IF AnswerIsYes(typed)
                 THEN MakeCommit(finalCommitMessage)
                 ELSE /\ Exit(1, "declinedConfirm")
                      /\ UNCHANGED << calls, committed >>
    /\ UNCHANGED << flags, staged, replies, changes, output, feeAnswer, diff,
                    prompt, text, finalCommitMessage, msgs, choice, round,
                    mainDiff, passed, sent, picked >>

\* generateListCommits, lines 189-198
ListFilter ==
    /\ pc = "list"
    /\ Filter(getPromptForListCommits(diff, commitType, language, numOptions),
              numOptions, "listSend")

\* generateListCommits, lines 200-203
ListSend ==
    /\ pc = "listSend"
    /\ Send("listMenu")

\* generateListCommits, lines 205-223
ListMenu ==
    /\ pc = "listMenu"
    /\ \E okLeft \in 0..Len(Split(text, ";")) :
        LET r == PostProcessList(text, template, emoji, BranchOutput, okLeft)
        IN  /\ okLeft = Len(Split(text, ";")) \/ r.fatal
            /\ Count("branch", r.lookups)
            /\ IF r.fatal
               THEN /\ Exit(1, "branchFailed")
                    /\ UNCHANGED msgs
               ELSE /\ msgs' = Append(r.msgs, regenerateMsg)
                    /\ Goto("listChoice")
    /\ UNCHANGED << flags, staged, replies, changes, output, feeAnswer, diff,
                    prompt, text, finalCommitMessage, answer, choice, round,
                    mainDiff, passed, sent, committed, picked >>

\* generateListCommits, lines 224-239; the recursive call starts with a new
\* frame: the locals of the frame that made the choice are not read again
ListChoice ==
    /\ pc = "listChoice"
    /\ \E typed \in 0..(Len(msgs) + 1) :
        /\ picked' = IF InvalidChoice(typed, Len(msgs)) THEN "invalid"
                     ELSE IF typed = Len(msgs) THEN "sentinel"
                     ELSE "candidate"
        /\ IF InvalidChoice(typed, Len(msgs))
           THEN /\ Exit(1, "badChoice")
                /\ choice' = typed
                /\ UNCHANGED << prompt, text, msgs, round, calls, committed >>
           ELSE IF IsRegenerate(msgs[typed])
           THEN /\ round < MaxRounds
                /\ round' = round + 1
                /\ Goto("list")
                /\ prompt' = ""
                /\ text' = ""
                /\ msgs' = << >>
                /\ choice' = 0
                /\ UNCHANGED << calls, committed >>
           ELSE /\ MakeCommit(msgs[typed])
                /\ choice' = typed
                /\ UNCHANGED << prompt, text, msgs, round >>
    /\ UNCHANGED << flags, staged, replies, changes, output, feeAnswer, diff,
                    finalCommitMessage, answer, mainDiff, passed, sent >>

Next ==
    \/ ParseFlags
    \/ CheckGitRepository
    \/ MainGetGitDiff
    \/ ExternalChange
    \/ SingleGetGitDiff
    \/ SingleFilter
    \/ SingleSend
    \/ SingleShow
    \/ SingleConfirm
    \/ ListFilter
    \/ ListSend
    \/ ListMenu
    \/ ListChoice

Spec == Init /\ [][Next]_vars

SpecDiff == InitDiff /\ [][Next]_vars

SpecSplit == InitSplit /\ [][Next]_vars

(***************************************************************************)
(* Properties.                                                             *)
(***************************************************************************)
\* an answer that is "y" once trimmed and lower-cased
SaysYes(typed) == TrimSpace(typed) \in { "y", "Y" }

CommitOf(message) == [message |-> message, ok |-> exitCode' = 0]

SinglePrompt(d) == getPromptForSingleCommit(d, commitType, language)

ListPrompt(d) == getPromptForListCommits(d, commitType, language, numOptions)

\* C1: in single mode, once the message is displayed, the commit tool is
\* invoked directly when --force is set (no question is read); otherwise it is
\* invoked exactly when the answer, trimmed and lower-cased, is "y", and any
\* other answer ends the run with exit status 1 and no commit invocation; the
\* commit tool is invoked nowhere else in single mode.
C1_SingleConfirmation ==
    /\ [][ pc = "singleConfirm" =>
             IF force
             THEN /\ answer' = answer
                  /\ calls'.commit = calls.commit + 1
                  /\ committed' = Append(committed, CommitOf(finalCommitMessage))
             ELSE IF SaysYes(answer')
             THEN /\ calls'.commit = calls.commit + 1
                  /\ committed' = Append(committed, CommitOf(finalCommitMessage))
             ELSE /\ pc' = "exit"
                  /\ exitCode' = 1
                  /\ calls' = calls
                  /\ committed' = committed ]_vars
    /\ [][ ~list /\ committed' # committed => pc = "singleConfirm" ]_vars

C1_Witness ==
    /\ ~list /\ ~force
    /\ answer = " Y \n"
    /\ exitCode = 0
    /\ committed = << [message |-> finalCommitMessage, ok |-> TRUE] >>

\* the step ends the run with exit status 1 and invokes nothing
Rejected == pc' = "exit" /\ exitCode' = 1 /\ calls' = calls

\* C2: in both modes and in every round, a request is posted only for the
\* prompt that has just passed the filter, one pass per request: its word
\* count is within the ceiling and, with --filter-fee, the fee answer was
\* "y"; a prompt over the ceiling, or a fee answer other than "y", ends the
\* run with exit status 1 and no request.
C2_FilterBeforeRequest ==
    /\ [][ calls'.post # calls.post =>
             /\ calls'.post = calls.post + 1
             /\ calls.filterPass = calls'.post
             /\ passed = prompt
             /\ sent' = passed
             /\ NumFields(sent') <= maxTokens
             /\ filterFee => SaysYes(feeAnswer) ]_vars
    /\ [][ (pc # pc' /\ pc \in { "singleFilter", "list" }) =>
             /\ NumFields(prompt') > maxTokens => Rejected
             /\ (filterFee /\ ~SaysYes(feeAnswer')) => Rejected ]_vars

C2_Witness ==
    /\ filterFee
    /\ round = 1
    /\ calls.post = 2
    /\ calls.filterPass = 2
    /\ sent = ListPrompt(diff)

\* C3: choosing the last menu entry, the regenerate sentinel, invokes no tool
\* in that step and re-enters generateListCommits with the same diff; there
\* the filter runs on the prompt built from the diff main collected, with no
\* diff call, and then a new request is posted with the same prompt as in the
\* round before.
C3_RegenerateSentinel ==
    /\ [][ pc = "listChoice" /\ picked' = "sentinel" =>
             /\ pc' = "list"
             /\ round' = round + 1
             /\ diff' = diff
             /\ calls' = calls
             /\ committed' = committed ]_vars
    /\ [][ pc = "list" /\ pc' # pc =>
             /\ pc' \in { "listSend", "exit" }
             /\ diff' = diff
             /\ diff = mainDiff
             /\ prompt' = ListPrompt(mainDiff)
             /\ calls'.diff = calls.diff
             /\ calls'.post = calls.post ]_vars
    /\ [][ pc = "listSend" =>
             /\ calls'.post = calls.post + 1
             /\ calls'.diff = calls.diff
             /\ sent' = prompt
             /\ round > 0 => sent' = sent ]_vars

C3_Witness ==
    /\ picked = "sentinel"
    /\ round = 1
    /\ pc = "listMenu"
    /\ changes = 1
    /\ calls.post = 2
    /\ calls.diff = 1
    /\ committed = << >>

\* C4: choosing a menu entry other than the last one invokes the commit tool
\* once, with that entry's text, posts no request and ends the run, whatever
\* the entry's text is.
C4_CandidateCommitted ==
    [][ pc = "listChoice" /\ picked' = "candidate" =>
          /\ pc' = "exit"
          /\ calls'.post = calls.post
          /\ calls'.commit = calls.commit + 1
          /\ committed' = Append(committed, CommitOf(msgs[choice'])) ]_vars

\* the positions of the semicolons of a text
Semicolons(t) == { i \in 1..Len(t) : Char(t, i) = ";" }

\* the i-th piece of a text cut at its semicolons
Piece(t, i) ==
    LET at == Semicolons(t)
        Nth(j) == CHOOSE q \in at : Cardinality({ r \in at : r < q }) = j - 1
        first == IF i = 1 THEN 1 ELSE Nth(i - 1) + 1
        last == IF i = Cardinality(at) + 1 THEN Len(t) ELSE Nth(i) - 1
    IN  SubSeq(t, first, last)

\* the emoji step and the template step on one candidate
Processed(m) ==
    LET withEmoji == IF emoji THEN addGitmojiToCommitMessage(m) ELSE m
    IN  IF template # ""
        THEN processTemplate(template, withEmoji, BranchOutput)
        ELSE withEmoji

\* C5: the menu of list mode holds, in order, the pieces of the response cut
\* at its semicolons, each trimmed and post-processed, and then the
\* regenerate sentinel: k semicolons give k+1 candidates and k+2 entries.
C5_MenuOfResponse ==
    pc = "listChoice" =>
        LET k == Cardinality(Semicolons(text))
        IN  /\ Len(msgs) = k + 2
            /\ msgs[k + 2] = regenerateMsg
            /\ \A i \in 1..(k + 1) :
                 msgs[i] = Processed(TrimSpace(Piece(text, i)))
            /\ (text = "feat: a ; fix: b ;chore: c" /\ ~emoji /\ template = "")
                 => msgs = << "feat: a", "fix: b", "chore: c", regenerateMsg >>

C5_Witness ==
    /\ pc = "listChoice"
    /\ text = "feat: a ; fix: b ;chore: c"
    /\ ~emoji
    /\ template = ""
    /\ msgs = << "feat: a", "fix: b", "chore: c", regenerateMsg >>

\* C6, as claimed: the filter rejects exactly when the prompt's word count
\* exceeds the ceiling, whatever the fee toggle and the answer.
C6_RejectIffTooLarge ==
    [][ (pc # pc' /\ pc \in { "singleFilter", "list" }) =>
          (pc' = "exit" <=> NumFields(prompt') > maxTokens) ]_vars

\* C6, amended: the filter rejects exactly when the prompt's word count
\* exceeds the ceiling, or it does not and --filter-fee is set and the answer,
\* trimmed and lower-cased, is not "y".
C6_RejectIffTooLargeOrDeclined ==
    [][ (pc # pc' /\ pc \in { "singleFilter", "list" }) =>
          (pc' = "exit" <=>
             \/ NumFields(prompt') > maxTokens
             \/ /\ NumFields(prompt') <= maxTokens
                /\ filterFee
                /\ ~SaysYes(feeAnswer')) ]_vars

C6_Witness ==
    /\ filterFee
    /\ feeAnswer = "yes\n"
    /\ NumFields(prompt) = maxTokens
    /\ pc = "exit"
    /\ cause = "declinedFee"

NonzeroCauses ==
    { "notRepo", "emptyDiff", "tooLarge", "declinedFee", "declinedConfirm",
      "badChoice", "diffFailed", "branchFailed", "commitFailed", "network" }

NoToolInvoked ==
    calls = [revparse |-> 0, diff |-> 0, filterPass |-> 0, post |-> 0,
             branch |-> 0, commit |-> 0]

\* the commit tool was invoked once and succeeded
CommittedOnce ==
    calls.commit = 1 /\ Len(committed) = 1 /\ committed[1].ok

\* what C7 says of the ends with a nonzero status, and of the running program
NonzeroEnds ==
    /\ pc # "exit" => exitCode = -1 /\ committed = << >> /\ calls.commit = 0
    /\ pc = "exit" =>
         /\ exitCode # -1
         /\ calls.commit = Len(committed)
         /\ CommittedOnce => exitCode = 0
         /\ cause \in NonzeroCauses => exitCode # 0
         /\ (exitCode # 0 /\ cause # "commitFailed") => committed = << >>
         /\ cause = "commitFailed" => Len(committed) = 1 /\ ~committed[1].ok
         /\ picked = "invalid" => cause = "badChoice"

\* C7, as claimed: a run ends with exit status 0 only after the commit tool
\* was invoked once and succeeded; every other end has a nonzero status, and
\* but for a failed commit no commit invocation was made.
C7_ExitStatus ==
    /\ NonzeroEnds
    /\ exitCode = 0 => CommittedOnce

\* C7, amended: a run ends with exit status 0 only after the commit tool was
\* invoked once and succeeded, or when the command line asked for the usage
\* (-h, -help) and no tool was invoked; every other end has a nonzero status,
\* and but for a failed commit no commit invocation was made.
C7_ExitStatusOrUsage ==
    /\ NonzeroEnds
    /\ exitCode = 0 => \/ CommittedOnce /\ cause = "committed"
                       \/ cause = "help" /\ NoToolInvoked
    /\ (pc = "exit" /\ exitCode # 0) => cause \in NonzeroCauses \cup { "badFlag" }

C7_Witness ==
    /\ list
    /\ round = 1
    /\ exitCode = 0
    /\ Len(committed) = 1
    /\ committed[1].ok

\* C8: the diff tool is invoked once per run, and every prompt posted embeds
\* the diff text main collected.
C8_DiffCollectedOnce ==
    /\ calls.diff <= 1
    /\ calls.post > 0 =>
         sent = IF list THEN ListPrompt(mainDiff) ELSE SinglePrompt(mainDiff)

\* the template with the branch placeholder replaced by the branch name and
\* the message placeholder by the message as it is
Substituted(t, m, branch) ==
    ReplaceAll(ReplaceAll(t, "{GIT_BRANCH}", branch), "{COMMIT_MESSAGE}", m)

\* C9: with a template, the branch is looked up exactly when the template
\* contains {GIT_BRANCH}, whatever the message is, and the result is the
\* template with the message and the branch name substituted; a failed lookup
\* ends the run with exit status 1 and no commit.
C9_BranchLookup ==
    /\ template = "" => calls.branch = 0
    /\ (template # "" /\ pc = "singleConfirm") =>
         /\ calls.branch > 0 <=> Contains(template, "{GIT_BRANCH}")
         /\ finalCommitMessage =
              Substituted(template,
                  IF emoji THEN addGitmojiToCommitMessage(text) ELSE text,
                  TrimSpace(BranchOutput))
    /\ (template # "" /\ pc = "listChoice" /\ round = 0) =>
         (calls.branch > 0 <=> Contains(template, "{GIT_BRANCH}"))
    /\ cause = "branchFailed" => exitCode = 1 /\ committed = << >>

NotMarker(line) == ~HasPrefix(line, "@@") /\ ~HasPrefix(line, "diff --git")

\* an output that is empty or holds marker lines only
OnlyMarkers(out) ==
    LET lines == Split(out, "\n")
    IN  \A i \in 1..Len(lines) :
          ~NotMarker(lines[i]) \/ (i = Len(lines) /\ lines[i] = "")

\* C10: the collected diff has no line starting with "@@" or "diff --git"; it
\* is the other lines of the captured output, in order, joined by newlines; it
\* is empty when the output is empty or holds marker lines only; and when what
\* main collected is empty the run ends with exit status 1 and no request.
C10_CollectedDiff ==
    /\ \A i \in 1..Len(Split(diff, "\n")) : NotMarker(Split(diff, "\n")[i])
    /\ diff = Join(SelectSeq(Split(output, "\n"), NotMarker), "\n")
    /\ OnlyMarkers(output) => diff = ""
    /\ (calls.diff > 0 /\ mainDiff = "") =>
         /\ pc = "exit"
         /\ exitCode = 1
         /\ calls.post = 0
         /\ committed = << >>

C10_Witness ==
    /\ output = "diff --git a.go a.go\n@@ -1 +1 @@\n+new x @@\n"
    /\ diff = "+new x @@\n"
    /\ pc = "listSend"

====
